---- MODULE Spec2Model ----
(***************************************************************************)
(* Backup metadata records of storage/backup/backup-cli/src/metadata:      *)
(* the leaf constructors, the three compaction constructors                *)
(* (new_*_backup_range) and Metadata::name.                                *)
(*                                                                         *)
(* u64 is modelled as 0..U64Max with U64Max scaled down; `+ 1` and `- 1`   *)
(* on u64 follow Rust: with overflow checks compiled in (debug profile, or *)
(* overflow-checks = true) an overflow panics, without them it wraps.      *)
(* Which of the two the build does is the variable overflow_checks.        *)
(***************************************************************************)
EXTENDS Integers, Sequences, FiniteSets, TLC

\* ------------------------------------------------------------------ bounds
U64Max == 11
MaxLen == 3

\* input samples of u64 coordinates and of opaque FileHandle / HashValue tokens
Coords == {0, 1, 2, U64Max}
\* (first_version, last_version) of the epoch-ending leaves: consecutive leaves
\* then show a version gap (0 then U64Max), an overlap (0 then 0) and a decrease
VersionSpans == {<<0, 0>>, <<U64Max, U64Max>>}
Manifests == {"m1", "m2"}
HashValues == {"h1", "h2"}

\* ------------------------------------------------------------- u64 arithmetic
\* the outcome of an arithmetic panic
Overflow == -1

\* x + 1 on u64
Add1(x, checks) ==
    IF x = U64Max THEN (IF checks THEN Overflow ELSE 0) ELSE x + 1

\* mutant: the exclusive next value is stored as the inclusive last one
Sub1Forgotten(x, checks) == x

\* x - 1 on u64
Sub1(x, checks) ==
    IF x = 0 THEN (IF checks THEN Overflow ELSE U64Max) ELSE x - 1

\* ------------------------------------------------------------- leaf records
new_epoch_ending_backup(first_epoch, last_epoch, first_version, last_version, manifest) ==
    [first_epoch |-> first_epoch, last_epoch |-> last_epoch,
     first_version |-> first_version, last_version |-> last_version,
     manifest |-> manifest]

new_state_snapshot_backup(epoch, version, manifest) ==
    [epoch |-> epoch, version |-> version, manifest |-> manifest]

new_transaction_backup(first_version, last_version, manifest) ==
    [first_version |-> first_version, last_version |-> last_version,
     manifest |-> manifest]

\* ------------------------------------------------------------- outcomes
\* Result<Self>: Ok(range), Err(anyhow error of an ensure!), or a panic
NoResult == [status |-> "none"]
Panic == [status |-> "panic"]
Ok(variant, range) == [status |-> "ok", variant |-> variant, range |-> range]
ErrEmpty == [status |-> "err", msg |-> "compacting an empty metadata vector"]
ErrNotContinuous(msg, expecting, got) ==
    [status |-> "err", msg |-> msg, expecting |-> expecting, got |-> got]

\* ------------------------------------------------------------- compaction
MsgEpochEnding == "Epoch ending backup ranges is not continuous expecting epoch {}, got {}."
MsgStateEpoch == "state backup ranges is not continuous expecting epoch {}, got {}."
MsgStateVersion == "state backup ranges is not continuous expecting version {}, got {}."
MsgTxn == "txn backup ranges is not continuous expecting version {}, got {}."

\* the state of a compaction loop that goes on to the next element
Continue(next_epoch, next_version) ==
    [status |-> "next", next_epoch |-> next_epoch, next_version |-> next_version]

\* the state of the transaction loop, which has no epoch
ContinueVersion(next_version) == [status |-> "next", next_version |-> next_version]

\* mutant: the loop does not carry last_version forward
EpochEndingStepStaleVersion(next_epoch, next_version, backup, checks) ==
    IF next_epoch # backup.first_epoch
    THEN ErrNotContinuous(MsgEpochEnding, next_epoch, backup.first_epoch)
    ELSE LET ne == Add1(backup.last_epoch, checks) IN
         IF ne = Overflow THEN Panic ELSE Continue(ne, next_version)

\* mutant: an epoch gap passes (the check is <= instead of ==)
EpochEndingStepGapAllowed(next_epoch, next_version, backup, checks) ==
    IF ~(next_epoch <= backup.first_epoch)
    THEN ErrNotContinuous(MsgEpochEnding, next_epoch, backup.first_epoch)
    ELSE LET ne == Add1(backup.last_epoch, checks) IN
         IF ne = Overflow THEN Panic ELSE Continue(ne, backup.last_version)

\* mutant: the versions of consecutive members must touch as well
EpochEndingStepVersionChecked(next_epoch, next_version, backup, checks) ==
    IF next_epoch # backup.first_epoch
    THEN ErrNotContinuous(MsgEpochEnding, next_epoch, backup.first_epoch)
    ELSE IF next_version # backup.first_version
    THEN ErrNotContinuous(MsgEpochEnding, next_version, backup.first_version)
    ELSE LET ne == Add1(backup.last_epoch, checks) IN
         IF ne = Overflow THEN Panic ELSE Continue(ne, backup.last_version)

\* one pass of the body of `for backup in backup_metas.iter().skip(1)` in
\* new_epoch_ending_backup_range
EpochEndingStep(next_epoch, next_version, backup, checks) ==
    IF next_epoch # backup.first_epoch
    THEN ErrNotContinuous(MsgEpochEnding, next_epoch, backup.first_epoch)
    ELSE LET ne == Add1(backup.last_epoch, checks) IN
         IF ne = Overflow THEN Panic ELSE Continue(ne, backup.last_version)

\* the loop from element i on; it ends at the first error or panic
RECURSIVE EpochEndingLoop(_, _, _, _)
EpochEndingLoop(backup_metas, i, st, checks) ==
    IF i > Len(backup_metas) \/ st.status # "next" THEN st
    ELSE EpochEndingLoop(backup_metas, i + 1,
             EpochEndingStep(st.next_epoch, st.next_version, backup_metas[i], checks),
             checks)

new_epoch_ending_backup_range(backup_metas, checks) ==
    IF backup_metas = <<>> THEN ErrEmpty
    ELSE LET backup_meta == backup_metas[1]
             first_epoch == backup_meta.first_epoch
             next_epoch == Add1(backup_meta.last_epoch, checks)
             first_version == backup_meta.first_version
             next_version == backup_meta.last_version
         IN  IF next_epoch = Overflow THEN Panic
             ELSE LET loop == EpochEndingLoop(backup_metas, 2,
                                              Continue(next_epoch, next_version), checks)
                  IN  IF loop.status # "next" THEN loop
                      ELSE LET last_epoch == Sub1(loop.next_epoch, checks) IN
                           IF last_epoch = Overflow THEN Panic
                           ELSE Ok("EpochEndingBackupRange",
                                   [first_epoch |-> first_epoch,
                                    last_epoch |-> last_epoch,
                                    first_version |-> first_version,
                                    last_version |-> loop.next_version,
                                    backup_metas |-> backup_metas])

\* mutant: the version check is missing
StateSnapshotStepEpochOnly(next_epoch, next_version, backup, checks) ==
    IF next_epoch # backup.epoch
    THEN ErrNotContinuous(MsgStateEpoch, next_epoch, backup.epoch)
    ELSE LET ne == Add1(backup.epoch, checks) IN
         IF ne = Overflow THEN Panic
         ELSE LET nv == Add1(backup.version, checks) IN
              IF nv = Overflow THEN Panic ELSE Continue(ne, nv)

\* mutant: the version is checked before the epoch
StateSnapshotStepVersionFirst(next_epoch, next_version, backup, checks) ==
    IF next_version # backup.version
    THEN ErrNotContinuous(MsgStateVersion, next_version, backup.version)
    ELSE LET nv == Add1(backup.version, checks) IN
         IF nv = Overflow THEN Panic
         ELSE IF next_epoch # backup.epoch
         THEN ErrNotContinuous(MsgStateEpoch, next_epoch, backup.epoch)
         ELSE LET ne == Add1(backup.epoch, checks) IN
              IF ne = Overflow THEN Panic ELSE Continue(ne, nv)

\* one pass of the body of the loop of new_statesnapshot_backup_range
StateSnapshotStep(next_epoch, next_version, backup, checks) ==
    IF next_epoch # backup.epoch
    THEN ErrNotContinuous(MsgStateEpoch, next_epoch, backup.epoch)
    ELSE LET ne == Add1(backup.epoch, checks) IN
         IF ne = Overflow THEN Panic
         ELSE IF next_version # backup.version
         THEN ErrNotContinuous(MsgStateVersion, next_version, backup.version)
         ELSE LET nv == Add1(backup.version, checks) IN
              IF nv = Overflow THEN Panic ELSE Continue(ne, nv)

RECURSIVE StateSnapshotLoop(_, _, _, _)
StateSnapshotLoop(backup_metas, i, st, checks) ==
    IF i > Len(backup_metas) \/ st.status # "next" THEN st
    ELSE StateSnapshotLoop(backup_metas, i + 1,
             StateSnapshotStep(st.next_epoch, st.next_version, backup_metas[i], checks),
             checks)

new_statesnapshot_backup_range(backup_metas, checks) ==
    IF backup_metas = <<>> THEN ErrEmpty
    ELSE LET backup_meta == backup_metas[1]
             first_epoch == backup_meta.epoch
             next_epoch == Add1(backup_meta.epoch, checks)
             first_version == backup_meta.version
             next_version == Add1(backup_meta.version, checks)
         IN  IF next_epoch = Overflow \/ next_version = Overflow THEN Panic
             ELSE LET loop == StateSnapshotLoop(backup_metas, 2,
                                                Continue(next_epoch, next_version), checks)
                  IN  IF loop.status # "next" THEN loop
                      ELSE LET last_epoch == Sub1(loop.next_epoch, checks)
                               last_version == Sub1(loop.next_version, checks)
                           IN  IF last_epoch = Overflow \/ last_version = Overflow
                               THEN Panic
                               ELSE Ok("StateSnapshotBackupRange",
                                       [first_epoch |-> first_epoch,
                                        last_epoch |-> last_epoch,
                                        first_version |-> first_version,
                                        last_version |-> last_version,
                                        backup_metas |-> backup_metas])

\* mutant: a member may start before its predecessor ends (>= instead of ==)
TransactionStepOverlapAllowed(next_version, backup, checks) ==
    IF ~(next_version >= backup.first_version)
    THEN ErrNotContinuous(MsgTxn, next_version, backup.first_version)
    ELSE LET nv == Add1(backup.last_version, checks) IN
         IF nv = Overflow THEN Panic ELSE ContinueVersion(nv)

\* one pass of the body of the loop of new_transaction_backup_range
TransactionStep(next_version, backup, checks) ==
    IF next_version # backup.first_version
    THEN ErrNotContinuous(MsgTxn, next_version, backup.first_version)
    ELSE LET nv == Add1(backup.last_version, checks) IN
         IF nv = Overflow THEN Panic ELSE ContinueVersion(nv)

RECURSIVE TransactionLoop(_, _, _, _)
TransactionLoop(backup_metas, i, st, checks) ==
    IF i > Len(backup_metas) \/ st.status # "next" THEN st
    ELSE TransactionLoop(backup_metas, i + 1,
             TransactionStep(st.next_version, backup_metas[i], checks), checks)

\* mutant: an empty vector compacts to an empty range
new_transaction_backup_range_unguarded(backup_metas, checks) ==
    IF backup_metas = <<>>
    THEN Ok("TransactionBackupRange",
            [first_version |-> 0, last_version |-> 0, backup_metas |-> backup_metas])
    ELSE LET next_version == Add1(backup_metas[1].last_version, checks) IN
         IF next_version = Overflow THEN Panic
         ELSE LET loop == TransactionLoop(backup_metas, 2, ContinueVersion(next_version), checks)
              IN  IF loop.status # "next" THEN loop
                  ELSE Ok("TransactionBackupRange",
                          [first_version |-> backup_metas[1].first_version,
                           last_version |-> Sub1(loop.next_version, checks),
                           backup_metas |-> backup_metas])

new_transaction_backup_range(backup_metas, checks) ==
    IF backup_metas = <<>> THEN ErrEmpty
    ELSE LET backup_meta == backup_metas[1]
             first_version == backup_meta.first_version
             next_version == Add1(backup_meta.last_version, checks)
         IN  IF next_version = Overflow THEN Panic
             ELSE LET loop == TransactionLoop(backup_metas, 2,
                                              ContinueVersion(next_version), checks)
                  IN  IF loop.status # "next" THEN loop
                      ELSE LET last_version == Sub1(loop.next_version, checks) IN
                           IF last_version = Overflow THEN Panic
                           ELSE Ok("TransactionBackupRange",
                                   [first_version |-> first_version,
                                    last_version |-> last_version,
                                    backup_metas |-> backup_metas])

\* ------------------------------------------------------------- naming
\* the variants of Metadata
EpochEndingBackup(e) == [variant |-> "EpochEndingBackup", meta |-> e]
EpochEndingBackupRange(e) == [variant |-> "EpochEndingBackupRange", meta |-> e]
StateSnapshotBackup(s) == [variant |-> "StateSnapshotBackup", meta |-> s]
StateSnapshotBackupRange(e) == [variant |-> "StateSnapshotBackupRange", meta |-> e]
TransactionBackup(t) == [variant |-> "TransactionBackup", meta |-> t]
TransactionBackupRange(e) == [variant |-> "TransactionBackupRange", meta |-> e]
Identity(id) == [variant |-> "Identity", meta |-> [id |-> id]]

new_random_identity(id) == Identity(id)

\* Display of one decimal digit
Digit(d) ==
    CASE d = 0 -> "0" [] d = 1 -> "1" [] d = 2 -> "2" [] d = 3 -> "3" [] d = 4 -> "4"
      [] d = 5 -> "5" [] d = 6 -> "6" [] d = 7 -> "7" [] d = 8 -> "8" [] d = 9 -> "9"

\* Display of a u64, as format!("{}", n) prints it
RECURSIVE U64ToString(_)
U64ToString(n) ==
    IF n < 10 THEN Digit(n) ELSE U64ToString(n \div 10) \o Digit(n % 10)

\* mutant: the two numbers are printed without the "-" between them
FormatRangeNoDash(prefix, first, last) ==
    prefix \o U64ToString(first) \o U64ToString(last) \o ".meta"

\* format!("<prefix>{}-{}.meta", first, last)
FormatRange(prefix, first, last) ==
    prefix \o U64ToString(first) \o "-" \o U64ToString(last) \o ".meta"

\* the String that name() builds; its conversion to ShellSafeName
\* (.try_into().unwrap()) is the storage module's and keeps the text
name(self) ==
    LET e == self.meta IN
    CASE self.variant = "EpochEndingBackup" ->
           FormatRange("epoch_ending_", e.first_epoch, e.last_epoch)
      [] self.variant = "StateSnapshotBackup" ->
           "state_snapshot_ver_" \o U64ToString(e.version) \o ".meta"
      [] self.variant = "TransactionBackup" ->
           FormatRange("transaction_", e.first_version, e.last_version)
      [] self.variant = "EpochEndingBackupRange" ->
           FormatRange("epoch_ending_compacted_", e.first_epoch, e.last_epoch)
      [] self.variant = "StateSnapshotBackupRange" ->
           FormatRange("state_snapshot_compacted_ver_", e.first_version, e.last_version)
      [] self.variant = "TransactionBackupRange" ->
           FormatRange("transaction_compacted_", e.first_version, e.last_version)
      [] self.variant = "Identity" -> "identity.meta"

\* ------------------------------------------------------------- state
VARIABLES
    overflow_checks,  \* whether the build panics on u64 overflow (else it wraps)
    kind,             \* the leaf kind of the run being gathered
    backup_metas,     \* the Vec of leaf records handed to the compaction
    result,           \* what the compaction returned
    metas,            \* the Metadata values whose names are asked for
    names             \* names[i] is what metas[i].name() returned, "" before the call

vars == <<overflow_checks, kind, backup_metas, result, metas, names>>

Kinds == {"EpochEnding", "StateSnapshot", "Transaction"}

\* the manifest FileHandle of the i-th backup of a run: every backup writes its own
FileHandleOf(i) == "manifest_" \o U64ToString(i)

\* the two builds: overflow checks compiled in, or not
Builds == <<TRUE, FALSE>>

Init ==
    /\ \E b \in 1 .. 2 : overflow_checks = Builds[b]
    /\ kind \in Kinds
    /\ backup_metas = <<>>
    /\ result = NoResult
    /\ metas = <<>>
    /\ names = <<>>

\* a finished backup adds its leaf record to the run
PushEpochEnding ==
    /\ kind = "EpochEnding" /\ result = NoResult /\ Len(backup_metas) < MaxLen
    /\ \E fe \in Coords, le \in Coords, v \in VersionSpans :
          backup_metas' = Append(backup_metas,
              new_epoch_ending_backup(fe, le, v[1], v[2],
                                      FileHandleOf(Len(backup_metas) + 1)))
    /\ UNCHANGED <<overflow_checks, kind, result, metas, names>>

PushStateSnapshot ==
    /\ kind = "StateSnapshot" /\ result = NoResult /\ Len(backup_metas) < MaxLen
    /\ \E e \in Coords, v \in Coords :
          backup_metas' = Append(backup_metas,
              new_state_snapshot_backup(e, v, FileHandleOf(Len(backup_metas) + 1)))
    /\ UNCHANGED <<overflow_checks, kind, result, metas, names>>

PushTransaction ==
    /\ kind = "Transaction" /\ result = NoResult /\ Len(backup_metas) < MaxLen
    /\ \E fv \in Coords, lv \in Coords :
          backup_metas' = Append(backup_metas,
              new_transaction_backup(fv, lv, FileHandleOf(Len(backup_metas) + 1)))
    /\ UNCHANGED <<overflow_checks, kind, result, metas, names>>

CompactEpochEnding ==
    /\ kind = "EpochEnding" /\ result = NoResult
    /\ result' = new_epoch_ending_backup_range(backup_metas, overflow_checks)
    /\ UNCHANGED <<overflow_checks, kind, backup_metas, metas, names>>

CompactStateSnapshot ==
    /\ kind = "StateSnapshot" /\ result = NoResult
    /\ result' = new_statesnapshot_backup_range(backup_metas, overflow_checks)
    /\ UNCHANGED <<overflow_checks, kind, backup_metas, metas, names>>

CompactTransaction ==
    /\ kind = "Transaction" /\ result = NoResult
    /\ result' = new_transaction_backup_range(backup_metas, overflow_checks)
    /\ UNCHANGED <<overflow_checks, kind, backup_metas, metas, names>>

Next ==
    \/ PushEpochEnding
    \/ PushStateSnapshot
    \/ PushTransaction
    \/ CompactEpochEnding
    \/ CompactStateSnapshot
    \/ CompactTransaction

Spec == Init /\ [][Next]_vars

\* ------------------------------------------------------------- naming runs
\* leaf records of every kind, built by the constructors
EpochEndingLeaves ==
    {new_epoch_ending_backup(fe, le, v[1], v[2], m) :
        fe \in Coords, le \in Coords, v \in VersionSpans, m \in Manifests}
StateSnapshotLeaves ==
    {new_state_snapshot_backup(e, v, m) : e \in Coords, v \in Coords, m \in Manifests}
TransactionLeaves ==
    {new_transaction_backup(fv, lv, m) : fv \in Coords, lv \in Coords, m \in Manifests}

\* the range records the compactions return for the runs in `runs`
RangesOf(outcomes) == {r.range : r \in {o \in outcomes : o.status = "ok"}}

\* every Metadata value of the sample: the leaves, the ranges compacted from one
\* leaf (from one or two for snapshots, whose bounds one leaf cannot set apart)
\* and the identities
MetadataSamples(checks) ==
    {EpochEndingBackup(e) : e \in EpochEndingLeaves}
      \cup {EpochEndingBackupRange(r) :
              r \in RangesOf({new_epoch_ending_backup_range(<<e>>, checks) :
                                 e \in EpochEndingLeaves})}
      \cup {StateSnapshotBackup(s) : s \in StateSnapshotLeaves}
      \cup {StateSnapshotBackupRange(r) :
              r \in RangesOf({new_statesnapshot_backup_range(<<s>>, checks) :
                                 s \in StateSnapshotLeaves}
                             \cup {new_statesnapshot_backup_range(<<s, t>>, checks) :
                                 s \in StateSnapshotLeaves, t \in StateSnapshotLeaves})}
      \cup {TransactionBackup(t) : t \in TransactionLeaves}
      \cup {TransactionBackupRange(r) :
              r \in RangesOf({new_transaction_backup_range(<<t>>, checks) :
                                 t \in TransactionLeaves})}
      \cup {new_random_identity(id) : id \in HashValues}

InitName ==
    /\ \E b \in 1 .. 2 : overflow_checks = Builds[b]
    /\ kind = "Transaction"
    /\ backup_metas = <<>>
    /\ result = NoResult
    /\ metas \in MetadataSamples(overflow_checks) \X MetadataSamples(overflow_checks)
    /\ names = <<"", "">>

\* one call of metas[i].name()
Name(i) ==
    /\ names[i] = ""
    /\ names' = [names EXCEPT ![i] = name(metas[i])]
    /\ UNCHANGED <<overflow_checks, kind, backup_metas, result, metas>>

NextName == \E i \in {1, 2} : Name(i)

SpecName == InitName /\ [][NextName]_vars

\* ------------------------------------------------------------- properties
Compacted == result.status # "none"
NonEmpty == backup_metas # <<>>
Pairs(ms) == 1 .. (Len(ms) - 1)

\* the coordinate the compaction adds 1 to is at the u64 maximum
AtMax(k, m) ==
    CASE k = "EpochEnding" -> m.last_epoch = U64Max
      [] k = "StateSnapshot" -> m.epoch = U64Max \/ m.version = U64Max
      [] k = "Transaction" -> m.last_version = U64Max
NoneAtMax(k, ms) == \A i \in 1 .. Len(ms) : ~AtMax(k, ms[i])

\* continuity of the pair (ms[i], ms[i+1]), over the integers
EpochsChain(ms, i) == ms[i].last_epoch + 1 = ms[i + 1].first_epoch
SnapshotsChain(ms, i) ==
    /\ ms[i].epoch + 1 = ms[i + 1].epoch
    /\ ms[i].version + 1 = ms[i + 1].version
VersionsChain(ms, i) == ms[i].last_version + 1 = ms[i + 1].first_version
Chains(k, ms, i) ==
    CASE k = "EpochEnding" -> EpochsChain(ms, i)
      [] k = "StateSnapshot" -> SnapshotsChain(ms, i)
      [] k = "Transaction" -> VersionsChain(ms, i)

\* C1: compacting an empty sequence fails with the "empty" error for each of the
\* three kinds, and no range record is returned.
C1_EmptyRejected ==
    (Compacted /\ backup_metas = <<>>) => result = ErrEmpty
C1_Witness ==
    Compacted /\ backup_metas = <<>> /\ kind = "StateSnapshot" /\ result.status = "err"

\* C2 as stated: on a non-empty sequence the epoch-ending compaction succeeds
\* exactly when every adjacent pair has last_epoch + 1 = first_epoch.
C2_Original ==
    (Compacted /\ kind = "EpochEnding" /\ NonEmpty)
        => (result.status = "ok"
              <=> \A i \in Pairs(backup_metas) : EpochsChain(backup_metas, i))
\* C2 amended: the same, for sequences in which no member's last_epoch is the
\* u64 maximum.
C2_EpochChainIff ==
    (Compacted /\ kind = "EpochEnding" /\ NonEmpty /\ NoneAtMax(kind, backup_metas))
        => (result.status = "ok"
              <=> \A i \in Pairs(backup_metas) : EpochsChain(backup_metas, i))
C2_Witness ==
    /\ Compacted /\ kind = "EpochEnding" /\ Len(backup_metas) = 3
    /\ NoneAtMax(kind, backup_metas)
    /\ result.status = "ok"
    /\ backup_metas[1].last_epoch # backup_metas[2].last_epoch

\* C3 as stated: on a non-empty sequence the snapshot compaction succeeds exactly
\* when every adjacent pair advances both epoch and version by exactly one.
C3_Original ==
    (Compacted /\ kind = "StateSnapshot" /\ NonEmpty)
        => (result.status = "ok"
              <=> \A i \in Pairs(backup_metas) : SnapshotsChain(backup_metas, i))
\* C3 amended: the same, for sequences in which no member's epoch or version is
\* the u64 maximum.
C3_SnapshotLockstepIff ==
    (Compacted /\ kind = "StateSnapshot" /\ NonEmpty /\ NoneAtMax(kind, backup_metas))
        => (result.status = "ok"
              <=> \A i \in Pairs(backup_metas) : SnapshotsChain(backup_metas, i))
\* the epochs advance by one, the versions skip one: rejected
C3_Witness ==
    /\ Compacted /\ kind = "StateSnapshot" /\ Len(backup_metas) = 2
    /\ NoneAtMax(kind, backup_metas)
    /\ backup_metas[1].epoch + 1 = backup_metas[2].epoch
    /\ backup_metas[1].version + 2 = backup_metas[2].version
    /\ result.status = "err"

\* C4 as stated: on a non-empty sequence the transaction compaction succeeds
\* exactly when every adjacent pair has last_version + 1 = first_version.
C4_Original ==
    (Compacted /\ kind = "Transaction" /\ NonEmpty)
        => (result.status = "ok"
              <=> \A i \in Pairs(backup_metas) : VersionsChain(backup_metas, i))
\* C4 amended: the same, for sequences in which no member's last_version is the
\* u64 maximum.
C4_VersionChainIff ==
    (Compacted /\ kind = "Transaction" /\ NonEmpty /\ NoneAtMax(kind, backup_metas))
        => (result.status = "ok"
              <=> \A i \in Pairs(backup_metas) : VersionsChain(backup_metas, i))
C4_Witness ==
    /\ Compacted /\ kind = "Transaction" /\ Len(backup_metas) = 3
    /\ NoneAtMax(kind, backup_metas)
    /\ result.status = "ok"
    /\ backup_metas[1].first_version < backup_metas[1].last_version

\* C5: a successful compaction returns the input sequence unchanged as
\* backup_metas, the first member's lower bounds as first_* and the last member's
\* upper bounds as last_*.
C5_BoundsAndMembers ==
    result.status = "ok" =>
        LET r == result.range
            f == backup_metas[1]
            l == backup_metas[Len(backup_metas)]
        IN  /\ r.backup_metas = backup_metas
            /\ CASE kind = "EpochEnding" ->
                      /\ result.variant = "EpochEndingBackupRange"
                      /\ r.first_epoch = f.first_epoch /\ r.first_version = f.first_version
                      /\ r.last_epoch = l.last_epoch /\ r.last_version = l.last_version
                 [] kind = "StateSnapshot" ->
                      /\ result.variant = "StateSnapshotBackupRange"
                      /\ r.first_epoch = f.epoch /\ r.first_version = f.version
                      /\ r.last_epoch = l.epoch /\ r.last_version = l.version
                 [] kind = "Transaction" ->
                      /\ result.variant = "TransactionBackupRange"
                      /\ r.first_version = f.first_version
                      /\ r.last_version = l.last_version
C5_Witness ==
    /\ result.status = "ok" /\ kind = "EpochEnding" /\ Len(backup_metas) = 3
    /\ backup_metas[1].last_version # backup_metas[3].last_version
    /\ backup_metas[1].first_epoch # backup_metas[3].last_epoch

\* the first pair of ms that does not chain
FirstBreak(k, ms) ==
    CHOOSE j \in Pairs(ms) :
        /\ ~Chains(k, ms, j)
        /\ \A i \in Pairs(ms) : i < j => Chains(k, ms, i)
\* the error the claim expects for the break at pair j
BreakError(k, ms, j) ==
    CASE k = "EpochEnding" ->
           ErrNotContinuous(MsgEpochEnding, ms[j].last_epoch + 1, ms[j + 1].first_epoch)
      [] k = "StateSnapshot" ->
           IF ms[j].epoch + 1 # ms[j + 1].epoch
           THEN ErrNotContinuous(MsgStateEpoch, ms[j].epoch + 1, ms[j + 1].epoch)
           ELSE ErrNotContinuous(MsgStateVersion, ms[j].version + 1, ms[j + 1].version)
      [] k = "Transaction" ->
           ErrNotContinuous(MsgTxn, ms[j].last_version + 1, ms[j + 1].first_version)
HasBreak(k, ms) == \E j \in Pairs(ms) : ~Chains(k, ms, j)

\* C6 as stated: a discontinuous input fails at its first discontinuous pair with
\* an error naming expected = previous last + 1 and actual = next first (for
\* snapshots the epoch violation when both are violated); no range is returned.
C6_Original ==
    (Compacted /\ HasBreak(kind, backup_metas))
        => result = BreakError(kind, backup_metas, FirstBreak(kind, backup_metas))
\* C6 amended: the same, for inputs in which no member has the coordinate the
\* compaction increments (last_epoch; epoch, version; last_version) at the u64
\* maximum.
C6_FirstBreakReported ==
    (Compacted /\ HasBreak(kind, backup_metas) /\ NoneAtMax(kind, backup_metas))
        => result = BreakError(kind, backup_metas, FirstBreak(kind, backup_metas))
\* three snapshots: the first pair chains, the second breaks on both axes
C6_Witness ==
    /\ Compacted /\ kind = "StateSnapshot" /\ Len(backup_metas) = 3
    /\ NoneAtMax(kind, backup_metas)
    /\ SnapshotsChain(backup_metas, 1)
    /\ backup_metas[2].epoch + 1 # backup_metas[3].epoch
    /\ backup_metas[2].version + 1 # backup_metas[3].version
    /\ result.status = "err" /\ result.msg = MsgStateEpoch

\* C7: when previous.last + 1 exceeds the u64 maximum the compaction ends in a
\* hard failure: a first member at the maximum panics, and no range record is
\* returned for a sequence with a member at the maximum.
C7_OverflowIsHardFailure ==
    (Compacted /\ NonEmpty) =>
        /\ AtMax(kind, backup_metas[1]) => result.status = "panic"
        /\ result.status = "ok" => NoneAtMax(kind, backup_metas)

\* the range record of C8: one member, the leaf, and the leaf's own bounds
SingleRange(k, leaf) ==
    CASE k = "EpochEnding" ->
           Ok("EpochEndingBackupRange",
              [first_epoch |-> leaf.first_epoch, last_epoch |-> leaf.last_epoch,
               first_version |-> leaf.first_version, last_version |-> leaf.last_version,
               backup_metas |-> <<leaf>>])
      [] k = "StateSnapshot" ->
           Ok("StateSnapshotBackupRange",
              [first_epoch |-> leaf.epoch, last_epoch |-> leaf.epoch,
               first_version |-> leaf.version, last_version |-> leaf.version,
               backup_metas |-> <<leaf>>])
      [] k = "Transaction" ->
           Ok("TransactionBackupRange",
              [first_version |-> leaf.first_version, last_version |-> leaf.last_version,
               backup_metas |-> <<leaf>>])

\* C8 as stated: compacting one leaf, whatever its u64 fields, succeeds with a
\* range of that one member and the leaf's own bounds.
C8_Original ==
    (Compacted /\ Len(backup_metas) = 1)
        => result = SingleRange(kind, backup_metas[1])
\* C8 amended: the same, for a leaf whose incremented coordinate (last_epoch;
\* epoch and version; last_version) is below the u64 maximum.
C8_SingleLeaf ==
    (Compacted /\ Len(backup_metas) = 1 /\ ~AtMax(kind, backup_metas[1]))
        => result = SingleRange(kind, backup_metas[1])
C8_Witness ==
    /\ Compacted /\ Len(backup_metas) = 1 /\ kind = "StateSnapshot"
    /\ ~AtMax(kind, backup_metas[1])
    /\ result.status = "ok" /\ backup_metas[1].epoch # backup_metas[1].version

\* the coordinates of a record that C9 says its name depends on
NameCoordinates(m) ==
    CASE m.variant \in {"EpochEndingBackup", "EpochEndingBackupRange"} ->
           <<m.meta.first_epoch, m.meta.last_epoch>>
      [] m.variant = "StateSnapshotBackup" -> <<m.meta.version>>
      [] m.variant \in {"StateSnapshotBackupRange", "TransactionBackup",
                        "TransactionBackupRange"} ->
           <<m.meta.first_version, m.meta.last_version>>
      [] m.variant = "Identity" -> <<>>

\* C9: two records get the same name exactly when they are of the same variant
\* and have the same name coordinates, whatever their other fields.
C9_NameIsCoordinateKeyed ==
    (Len(names) = 2 /\ names[1] # "" /\ names[2] # "")
        => (names[1] = names[2]
              <=> /\ metas[1].variant = metas[2].variant
                  /\ NameCoordinates(metas[1]) = NameCoordinates(metas[2]))
\* two snapshot ranges of different epochs and manifests, one name
C9_Witness ==
    /\ Len(names) = 2 /\ names[1] # "" /\ names[1] = names[2]
    /\ metas[1].variant = "StateSnapshotBackupRange"
    /\ metas[1].meta.first_epoch # metas[2].meta.first_epoch
    /\ metas[1].meta.backup_metas # metas[2].meta.backup_metas
    /\ metas[1].meta.first_version # metas[1].meta.last_version

\* C10 as stated: a non-empty run of epoch-ending leaves whose epochs chain
\* compacts, whatever the versions of its members.
C10_Original ==
    (Compacted /\ kind = "EpochEnding" /\ NonEmpty
       /\ \A i \in Pairs(backup_metas) : EpochsChain(backup_metas, i))
        => result.status = "ok"
\* C10 amended: the same, when the last member's last_epoch is below the u64
\* maximum.
C10_VersionsNotChecked ==
    (Compacted /\ kind = "EpochEnding" /\ NonEmpty
       /\ (\A i \in Pairs(backup_metas) : EpochsChain(backup_metas, i))
       /\ ~AtMax(kind, backup_metas[Len(backup_metas)]))
        => result.status = "ok"
\* a version gap between the first two members, a decrease between the last two
C10_Witness ==
    /\ Compacted /\ kind = "EpochEnding" /\ Len(backup_metas) = 3
    /\ result.status = "ok"
    /\ backup_metas[1].last_version + 1 < backup_metas[2].first_version
    /\ backup_metas[3].first_version < backup_metas[2].last_version

====
